---- MODULE Spec2Model ----
(***************************************************************************)
(* A model of the Sheet component of src/src/sheet.tsx: the snap-point     *)
(* normalizer, the drag tracker (handleDrag), the release resolver         *)
(* (handleDragEnd), the imperative snapTo and the mount / open-close       *)
(* effects.                                                                *)
(*                                                                         *)
(* Numbers.  Lengths (offsets, heights, snap points) are JavaScript        *)
(* numbers and may be fractional (0.5 * windowHeight).  They are modelled  *)
(* as exact fixed-point numbers: the integer k stands for k / Unit pixels. *)
(* windowHeight (window.innerHeight) and snap indices are whole numbers    *)
(* and are kept unscaled.  Velocities are in px/s, unscaled.               *)
(***************************************************************************)
EXTENDS Integers, Sequences, FiniteSets, TLC

\* ------------------------------------------------------------------ bounds
\* Resolution of the fixed-point lengths: 1 px = Unit.
Unit == 2
\* Largest viewport height, content height and absolute snap point, in px.
MaxPx == 3
\* Longest snapPoints array.
MaxLen == 2

\* ------------------------------------------------------- program constants
\* sheet.tsx:72  velocity.y > 500
FlickVelocity == 500
\* sheet.tsx:63-64  indicatorRotation.set(10) / set(-10)
IndicatorTilt == 10
\* sheet.tsx:80  y.get() / contentHeight > 0.6, as the fraction 6 / 10
CloseRatioNum == 6
CloseRatioDen == 10
\* Array.prototype.indexOf's "not found" (sheet.tsx:89)
NotFound == -1

\* ---------------------------------------------------------------- numbers
Px(n) == n * Unit

\* The whole number a fixed-point snapTo argument stands for, when it is one.
IndexOfArg(n) == n \div Unit

Abs(x) == IF x < 0 THEN -x ELSE x

Max(a, b) == IF a >= b THEN a ELSE b

\* Math.round on a fixed-point length: the nearest whole pixel count, halves
\* rounded towards +Infinity, as a fixed-point length again.
MathRound(x) == ((2 * x + Unit) \div (2 * Unit)) * Unit

\* Array.prototype.indexOf: the 0-based index of the first element strictly
\* equal to v, or -1.
IndexOf(arr, v) ==
    IF \E i \in 1..Len(arr) : arr[i] = v
    THEN (CHOOSE i \in 1..Len(arr) :
              arr[i] = v /\ \A j \in 1..(i - 1) : arr[j] # v) - 1
    ELSE NotFound

\* The snapPoints prop: undefined, or an array of numbers.
NoSnapPoints == [defined |-> FALSE, points |-> <<>>]

SomeSnapPoints(pts) == [defined |-> TRUE, points |-> pts]

\* ------------------------------------------------------------------ state
VARIABLES
    windowHeight,       \* useWindowHeight(): the viewport height in whole px
    rawSnapPoints,      \* the snapPoints prop as the host passes it
    hasOnSnap,          \* whether the host passes an onSnap callback
    initialSnap,        \* the initialSnap prop
    disableDrag,        \* the disableDrag prop
    isOpen,             \* the isOpen prop of the latest render
    mounted,            \* useState(false), set by the mount effect
    snapPoints,         \* snapPoints as normalized by the latest render
    endSnapPoints,      \* snapPoints as captured by the memoized handleDragEnd
    diagnostic,         \* the latest render's console.assert printed its message
    sheetRef,           \* TRUE iff sheetRef.current holds the panel element
    y,                  \* the live offset (motion value), fixed-point
    animating,          \* an animate(y, ...) transition is in flight
    animTarget,         \* its target (0 when none is in flight)
    indicatorRotation,  \* the drag indicator hint
    dragging,           \* a pan gesture is active
    ev                  \* what the latest step did: its inputs and the calls
                        \* it made to the host (onSnap, onClose, animate)

vars == <<windowHeight, rawSnapPoints, hasOnSnap, initialSnap, disableDrag,
          isOpen, mounted, snapPoints, endSnapPoints, diagnostic, sheetRef, y,
          animating, animTarget, indicatorRotation, dragging, ev>>

props == <<rawSnapPoints, hasOnSnap, initialSnap, disableDrag>>

\* The record of a step.  v, ch, n, dy: its inputs (release velocity, measured
\* content height, snapTo argument, drag delta); y0: the offset a drag update
\* found; snaps: the arguments of its onSnap calls in order;
\* closes: the number of its onClose calls; anim: whether it called animate,
\* req: the target it passed, busy: whether a transition was in flight then;
\* threw: whether it ended in an exception.
Event(op) ==
    [op |-> op, v |-> 0, ch |-> 0, n |-> 0, dy |-> 0, y0 |-> 0,
     snaps |-> <<>>, closes |-> 0, anim |-> FALSE, req |-> 0, busy |-> FALSE,
     threw |-> FALSE]

\* ------------------------------------------------------------- input sets
\* Content heights and offsets: whole pixels, and one unit less than each.
Heights == {Px(p) : p \in 0..MaxPx} \cup {Px(p) - 1 : p \in 1..MaxPx}

WindowHeights == 0..MaxPx

\* Raw snap specifications: negative offsets (the largest, and one pixel), 0,
\* the fractions 1/Unit .. 1, and absolute values above 1 px (the largest
\* whole one, and one unit less).
RawVals ==
    {-Px(MaxPx), -Unit, 0} \cup (1..Unit) \cup {Px(MaxPx) - 1, Px(MaxPx)}

RECURSIVE SeqsUpTo(_, _)
SeqsUpTo(S, n) ==
    IF n = 0 THEN {<<>>}
    ELSE LET shorter == SeqsUpTo(S, n - 1)
         IN  shorter \cup {Append(s, x) : s \in shorter, x \in S}

\* Every snapPoints prop within the bounds: undefined, or a non-empty array.
SnapProps ==
    {NoSnapPoints} \cup {SomeSnapPoints(s) : s \in SeqsUpTo(RawVals, MaxLen) \ {<<>>}}

\* Release velocities around the fast-dismiss threshold.
Velocities == {0, FlickVelocity, FlickVelocity + 1}

\* Per-tick drag deltas, fixed-point.
Deltas == {-Unit, -1, 1, Unit}

\* Signs of y.getVelocity().
VelocitySigns == {-1, 0, 1}

\* snapTo arguments, fixed-point: -1, 1/Unit (not a whole number), 0..MaxLen.
SnapToArgs == {-Unit, 1} \cup {Px(i) : i \in 0..MaxLen}

\* ------------------------------------------------------ the render (46-58)
\* A normalizer whose fractional range leaves out 1 (point < 1).
NormalizePointBelowOne(point, H) ==
    IF point > 0 /\ point < Unit THEN point * H
    ELSE IF point < 0 THEN Px(H) + point
    ELSE point

\* sheet.tsx:48-51, one point.
NormalizePoint(point, H) ==
    IF point > 0 /\ point <= Unit THEN point * H
    ELSE IF point < 0 THEN Px(H) + point
    ELSE point

\* sheet.tsx:46-51: snapPoints.map(...) when snapPoints is given.
Normalize(raw, H) ==
    IF raw.defined
    THEN SomeSnapPoints([i \in 1..Len(raw.points) |-> NormalizePoint(raw.points[i], H)])
    ELSE raw

\* utils inDescendingOrder(arr): every element is smaller than the one
\* before it.
inDescendingOrder(arr) == \A i \in 1..(Len(arr) - 1) : arr[i + 1] < arr[i]

\* An assertion without the windowHeight === 0 exemption.
DiagnosticAtZero(sp, H) == sp.defined /\ ~inDescendingOrder(sp.points)

\* sheet.tsx:53-58: console.assert(inDescendingOrder(snapPoints) ||
\* windowHeight === 0, ...) when snapPoints is given; the message is printed
\* when the assertion is false, and the render goes on.
Diagnostic(sp, H) == sp.defined /\ ~(inDescendingOrder(sp.points) \/ H = 0)

\* --------------------------------------------------- the drag tracker (60-68)
\* sheet.tsx:63-64: the hint follows the sign of y.getVelocity().
IndicatorAfterDrag(rotation, velocity) ==
    IF velocity > 0 THEN IndicatorTilt
    ELSE IF velocity < 0 THEN -IndicatorTilt
    ELSE rotation

\* A drag update without the clamp.
ClampDragMissing(offset, dy) == offset + dy

\* sheet.tsx:67: Math.max(y.get() + delta.y, 0).
ClampDrag(offset, dy) == Max(offset + dy, 0)

\* ----------------------------------------------- the release resolver (70-100)
\* A threshold that takes velocity.y = 500 for a flick.
IsFlickInclusive(v) == v >= FlickVelocity

\* sheet.tsx:72: velocity.y > 500.
IsFlick(v) == v > FlickVelocity

\* utils getClosest(nums, goal): the element of nums closest to goal, the
\* first such element when several are equally close.
RECURSIVE getClosestFrom(_, _, _, _)
getClosestFrom(nums, goal, i, prev) ==
    IF i > Len(nums) THEN prev
    ELSE getClosestFrom(nums, goal, i + 1,
             IF Abs(nums[i] - goal) < Abs(prev - goal) THEN nums[i] ELSE prev)

getClosest(nums, goal) == getClosestFrom(nums, goal, 2, nums[1])

\* Candidates that are the snap points themselves (heights, not offsets).
CandidatesAsHeights(points, contentHeight) ==
    [i \in 1..Len(points) |-> points[i]]

\* sheet.tsx:79: snapPoints.map(p => contentHeight - p).
Candidates(points, contentHeight) ==
    [i \in 1..Len(points) |-> contentHeight - points[i]]

\* A threshold that closes at exactly 60% too (>=).
DraggedOverRatioInclusive(offset, contentHeight) ==
    IF contentHeight = 0 THEN offset > 0
    ELSE CloseRatioDen * offset >= CloseRatioNum * contentHeight

\* sheet.tsx:80: y.get() / contentHeight > 0.6 in IEEE arithmetic; a zero
\* contentHeight gives Infinity (offset > 0), NaN (offset = 0) or -Infinity.
DraggedOverRatio(offset, contentHeight) ==
    IF contentHeight = 0 THEN offset > 0
    ELSE CloseRatioDen * offset > CloseRatioNum * contentHeight

\* sheet.tsx:78-82: the target of a release that is not a flick.
ReleaseTarget(sp, offset, contentHeight) ==
    IF sp.defined THEN getClosest(Candidates(sp.points, contentHeight), offset)
    ELSE IF DraggedOverRatio(offset, contentHeight) THEN contentHeight
    ELSE 0

\* sheet.tsx:88: Math.abs(Math.round(snapPoints[0] - snapTo)).
SnapValue(first, target) == Abs(MathRound(first - target))

\* sheet.tsx:87-91: the onSnap calls of a release.
ReleaseSnaps(sp, onSnap, target) ==
    IF sp.defined /\ onSnap
    THEN <<IndexOf(sp.points, SnapValue(sp.points[1], target))>>
    ELSE <<>>

\* A release that leaves the indicator hint as the drag left it.
IndicatorAfterReleaseKept(rotation) == rotation

\* sheet.tsx:97: indicatorRotation.set(0), the last statement of
\* handleDragEnd, after both branches.
IndicatorAfterRelease(rotation) == 0

\* A test that lets the target equal to the content height stay open (>).
ClosesAtStrict(target, contentHeight) == target > contentHeight

\* sheet.tsx:93 and 128: snapTo >= contentHeight.
ClosesAt(target, contentHeight) == target >= contentHeight

\* ------------------------------------------------------- snapTo (119-131)
\* An index test that truncates its argument to a whole number first.
HasSnapPointTruncated(sp, n) ==
    sp.defined /\ n \div Unit \in 0..(Len(sp.points) - 1)

\* sheet.tsx:121: snapPoints && snapPoints[snapIndex] !== undefined, for a
\* fixed-point argument n: the array has an element at a whole index within
\* its length, and at no other property name.
HasSnapPoint(sp, n) ==
    sp.defined /\ n % Unit = 0 /\ IndexOfArg(n) \in 0..(Len(sp.points) - 1)

\* A snapTo whose target is the snap point itself (a height, not an offset).
SnapToTargetAsHeight(sp, n, contentHeight) == sp.points[(n \div Unit) + 1]

\* sheet.tsx:124: contentHeight - snapPoints[snapIndex].
SnapToTarget(sp, n, contentHeight) == contentHeight - sp.points[IndexOfArg(n) + 1]

\* sheet.tsx:127: if (onSnap) onSnap(snapIndex).
SnapToSnaps(onSnap, n) == IF onSnap THEN <<IndexOfArg(n)>> ELSE <<>>

\* ------------------------------------------------- lifecycle effects (108-117)
\* An effect that does not look at mounted.
LifecycleSnapsUnmounted(sp, onSnap, isMounted, open, initial) ==
    IF ~sp.defined \/ ~onSnap THEN <<>>
    ELSE <<IF open THEN initial ELSE Len(sp.points) - 1>>

\* An effect that reports the length, not the last index, on closing.
LifecycleSnapsLength(sp, onSnap, isMounted, open, initial) ==
    IF ~sp.defined \/ ~onSnap \/ ~isMounted THEN <<>>
    ELSE <<IF open THEN initial ELSE Len(sp.points)>>

\* sheet.tsx:114-116: the open/close effect, which runs after the first
\* render and after every render in which isOpen changed.
LifecycleSnaps(sp, onSnap, isMounted, open, initial) ==
    IF ~sp.defined \/ ~onSnap \/ ~isMounted THEN <<>>
    ELSE <<IF open THEN initial ELSE Len(sp.points) - 1>>

\* -------------------------------------------------------- the animation
\* A request that waits: the transition in flight keeps its target.
RequestTransitionQueued(inFlight, current, target) ==
    IF inFlight THEN current ELSE target

\* sheet.tsx:85 and 126: animate(y, snapTo, ...) on the one motion value y;
\* the transition it starts takes the place of the one in flight.
RequestTransition(inFlight, current, target) == target

\* One frame of the transition animate(y, target, spring) started: the offset
\* moves at most one pixel towards the target.
AnimFrame(offset, target) ==
    IF Abs(target - offset) <= Unit THEN target
    ELSE IF target > offset THEN offset + Unit
    ELSE offset - Unit

\* ---------------------------------------------------------------- actions
renderState == <<windowHeight, rawSnapPoints, hasOnSnap, initialSnap,
                 disableDrag, isOpen, mounted, snapPoints, endSnapPoints,
                 diagnostic>>

\* Drag props that wire the handlers whatever disableDrag says.
DragWiredAlways(disabled) == TRUE

\* sheet.tsx:135-144: dragProps is {} when disableDrag, and otherwise
\* carries drag: 'y', onDrag and onDragEnd.
DragWired(disabled) == ~disabled

\* The pan gesture starts on the panel element, which takes dragProps.
DragStart ==
    /\ sheetRef /\ DragWired(disableDrag) /\ ~dragging
    /\ dragging' = TRUE
    /\ ev' = Event("dragStart")
    /\ UNCHANGED <<renderState, sheetRef, y, animating, animTarget, indicatorRotation>>

\* onDrag: handleDrag (60-68).
handleDrag(dy, velocity) ==
    /\ dragging
    /\ ClampDrag(y, dy) <= Px(MaxPx)
    /\ indicatorRotation' = IndicatorAfterDrag(indicatorRotation, velocity)
    /\ y' = ClampDrag(y, dy)
    /\ ev' = [Event("drag") EXCEPT !.dy = dy, !.y0 = y]
    /\ UNCHANGED <<renderState, sheetRef, animating, animTarget, dragging>>

\* onDragEnd: handleDragEnd (70-100), with the snapPoints it captured.  A
\* release that is not a flick reads sheetRef.current and measures it (76-77):
\* on an empty reference that is a TypeError, which ends the handler.
handleDragEnd(v, ch) ==
    /\ dragging
    /\ dragging' = FALSE
    /\ IF IsFlick(v)
       THEN /\ ev' = [Event("dragEnd") EXCEPT !.v = v, !.closes = 1]
            /\ indicatorRotation' = IndicatorAfterRelease(indicatorRotation)
            /\ UNCHANGED <<animating, animTarget>>
       ELSE IF ~sheetRef
       THEN /\ ev' = [Event("dragEnd") EXCEPT !.v = v, !.threw = TRUE]
            /\ UNCHANGED <<animating, animTarget, indicatorRotation>>
       ELSE LET target == ReleaseTarget(endSnapPoints, y, ch)
            IN  /\ animating' = TRUE
                /\ animTarget' = RequestTransition(animating, animTarget, target)
                /\ ev' = [Event("dragEnd") EXCEPT
                             !.v = v, !.ch = ch, !.anim = TRUE,
                             !.req = target, !.busy = animating,
                             !.snaps = ReleaseSnaps(endSnapPoints, hasOnSnap, target),
                             !.closes = IF ClosesAt(target, ch) THEN 1 ELSE 0]
                /\ indicatorRotation' = IndicatorAfterRelease(indicatorRotation)
    /\ UNCHANGED <<renderState, sheetRef, y>>

\* ref.current.snapTo(snapIndex) (119-131), with the latest render's snapPoints.
snapTo(n, ch) ==
    /\ IF ~HasSnapPoint(snapPoints, n)
       THEN /\ ev' = [Event("snapTo") EXCEPT !.n = n]
            /\ UNCHANGED <<animating, animTarget>>
       ELSE IF ~sheetRef
       THEN /\ ev' = [Event("snapTo") EXCEPT !.n = n, !.threw = TRUE]
            /\ UNCHANGED <<animating, animTarget>>
       ELSE LET target == SnapToTarget(snapPoints, n, ch)
            IN  /\ animating' = TRUE
                /\ animTarget' = RequestTransition(animating, animTarget, target)
                /\ ev' = [Event("snapTo") EXCEPT
                             !.n = n, !.ch = ch, !.anim = TRUE,
                             !.req = target, !.busy = animating,
                             !.snaps = SnapToSnaps(hasOnSnap, n),
                             !.closes = IF ClosesAt(target, ch) THEN 1 ELSE 0]
    /\ UNCHANGED <<renderState, sheetRef, y, indicatorRotation, dragging>>

\* The content height a handler measures, when it gets to measure.
Measured(measures, heights) == IF measures THEN heights ELSE {0}

DragEndIn(heights) ==
    \E v \in Velocities :
        \E ch \in Measured(~IsFlick(v) /\ sheetRef, heights) : handleDragEnd(v, ch)

SnapToIn(args, heights) ==
    \E n \in args :
        \E ch \in Measured(HasSnapPoint(snapPoints, n) /\ sheetRef, heights) :
            snapTo(n, ch)

DragIn(deltas) ==
    \E dy \in deltas, velocity \in VelocitySigns : handleDrag(dy, velocity)

\* A frame of the transition in flight; it ends on reaching its target.
AnimStep ==
    /\ animating
    /\ y' = AnimFrame(y, animTarget)
    /\ animating' = (y' # animTarget)
    /\ animTarget' = IF y' = animTarget THEN 0 ELSE animTarget
    /\ ev' = Event("frame")
    /\ UNCHANGED <<renderState, sheetRef, indicatorRotation, dragging>>

\* The mount effect (108-110) and the render it causes: the sheet moves into
\* the portal (182-183), where an open sheet's children attach sheetRef.
\* isOpen is the same in this render, so the open/close effect does not run.
Mount ==
    /\ ~mounted
    /\ mounted' = TRUE
    /\ snapPoints' = Normalize(rawSnapPoints, windowHeight)
    /\ diagnostic' = Diagnostic(snapPoints', windowHeight)
    /\ sheetRef' = isOpen
    /\ ev' = Event("mount")
    /\ UNCHANGED <<windowHeight, props, isOpen, endSnapPoints, y, animating,
                   animTarget, indicatorRotation, dragging>>

\* The host changes isOpen: a render (46-58), whose handleDragEnd is a new one
\* only if onClose or onSnap changed identity (99), and the effect on [isOpen]
\* (112-117).  Children are rendered while isOpen (171-175).
SetIsOpen(open, newCallbacks) ==
    /\ mounted /\ open # isOpen
    /\ isOpen' = open
    /\ snapPoints' = Normalize(rawSnapPoints, windowHeight)
    /\ diagnostic' = Diagnostic(snapPoints', windowHeight)
    /\ endSnapPoints' = IF newCallbacks THEN snapPoints' ELSE endSnapPoints
    /\ sheetRef' = (open \/ sheetRef)
    /\ ev' = [Event("setIsOpen") EXCEPT
                 !.snaps = LifecycleSnaps(snapPoints', hasOnSnap, mounted, open, initialSnap)]
    /\ UNCHANGED <<windowHeight, props, mounted, y, animating, animTarget,
                   indicatorRotation, dragging>>

ToggleOpen == \E newCallbacks \in BOOLEAN : SetIsOpen(~isOpen, newCallbacks)

\* AnimatePresence removes the children of a closed sheet once they have left.
ExitComplete ==
    /\ ~isOpen /\ sheetRef
    /\ sheetRef' = FALSE
    /\ dragging' = FALSE
    /\ ev' = Event("exit")
    /\ UNCHANGED <<renderState, y, animating, animTarget, indicatorRotation>>

\* useWindowHeight reports a new viewport height: a render with the same
\* props, so the memoized handleDragEnd is kept.
Resize(h) ==
    /\ h # windowHeight
    /\ windowHeight' = h
    /\ snapPoints' = Normalize(rawSnapPoints, h)
    /\ diagnostic' = Diagnostic(snapPoints', h)
    /\ ev' = Event("resize")
    /\ UNCHANGED <<props, isOpen, mounted, endSnapPoints, sheetRef, y, animating,
                   animTarget, indicatorRotation, dragging>>

WindowResizeIn(heights) == \E h \in heights : Resize(h)

\* The host renders again with new onClose / onSnap functions: handleDragEnd
\* is created anew and captures this render's snapPoints.
HostRender ==
    /\ endSnapPoints # snapPoints
    /\ endSnapPoints' = snapPoints
    /\ diagnostic' = Diagnostic(snapPoints, windowHeight)
    /\ ev' = Event("render")
    /\ UNCHANGED <<windowHeight, props, isOpen, mounted, snapPoints, sheetRef, y,
                   animating, animTarget, indicatorRotation, dragging>>

\* ------------------------------------------------------ the specifications
\* The snapPoints props of the sheet's life: none, absolute ones, and
\* fractions of the viewport height (1 and 1/Unit).
LifeSnapProps ==
    {NoSnapPoints,
     SomeSnapPoints(<<Px(MaxPx), 0>>),
     SomeSnapPoints(<<Unit, 1>>)}

\* Its viewport heights: one pixel and the largest.
LifeWindowHeights == {1, MaxPx}

\* Its content heights: one pixel and the largest.
LifeHeights == {Unit, Px(MaxPx)}

\* Its drag deltas: a pixel up, a fraction of a pixel down.
LifeDeltas == {-Unit, 1}

\* Its snapTo arguments.
LifeSnapToArgs == SnapToArgs

DragEnd == DragEndIn(LifeHeights)

SnapTo == SnapToIn(LifeSnapToArgs, LifeHeights)

Drag == DragIn(LifeDeltas)

WindowResize == WindowResizeIn(LifeWindowHeights)

\* The first render (mounted = false): nothing but the wrapper div is
\* rendered, and the open/close effect runs for the first time.
Init ==
    /\ windowHeight \in LifeWindowHeights
    /\ rawSnapPoints \in LifeSnapProps
    /\ hasOnSnap \in BOOLEAN
    /\ initialSnap \in {0, 1}
    /\ disableDrag \in BOOLEAN
    /\ isOpen \in BOOLEAN
    /\ mounted = FALSE
    /\ snapPoints = Normalize(rawSnapPoints, windowHeight)
    /\ diagnostic = Diagnostic(snapPoints, windowHeight)
    /\ endSnapPoints = snapPoints
    /\ sheetRef = FALSE
    /\ y = Px(windowHeight)
    /\ animating = FALSE
    /\ animTarget = 0
    /\ indicatorRotation = 0
    /\ dragging = FALSE
    /\ ev = [Event("init") EXCEPT
                !.snaps = LifecycleSnaps(snapPoints, hasOnSnap, mounted, isOpen, initialSnap)]

Next ==
    \/ Mount
    \/ ToggleOpen
    \/ ExitComplete
    \/ WindowResize
    \/ HostRender
    \/ DragStart
    \/ Drag
    \/ DragEnd
    \/ SnapTo
    \/ AnimStep

Spec == Init /\ [][Next]_vars

\* One operation of a mounted, open sheet under drag, from every snapPoints
\* prop, viewport height and live offset within the bounds.
OpsInit ==
    /\ windowHeight \in WindowHeights
    /\ rawSnapPoints \in SnapProps
    /\ hasOnSnap \in BOOLEAN
    /\ initialSnap = 0
    /\ disableDrag = FALSE
    /\ isOpen = TRUE
    /\ mounted = TRUE
    /\ snapPoints = Normalize(rawSnapPoints, windowHeight)
    /\ diagnostic = Diagnostic(snapPoints, windowHeight)
    /\ endSnapPoints = snapPoints
    /\ sheetRef = TRUE
    /\ y \in Heights
    /\ animating = FALSE
    /\ animTarget = 0
    /\ indicatorRotation = 0
    /\ dragging = TRUE
    /\ ev = Event("init")

OpsDragEnd == ev.op = "init" /\ DragEndIn(Heights)

OpsSnapTo == ev.op = "init" /\ SnapToIn(SnapToArgs, Heights)

OpsResize == ev.op = "init" /\ WindowResizeIn(WindowHeights)

OpsNext == OpsDragEnd \/ OpsSnapTo \/ OpsResize

SpecOps == OpsInit /\ [][OpsNext]_vars

\* Transition requests and frames of a mounted, open sheet at rest: releases
\* of gestures that did not move the offset, and snapTo calls.  A transition
\* in flight gets its frames (requestAnimationFrame).
SettleInit ==
    /\ windowHeight \in LifeWindowHeights
    /\ rawSnapPoints \in LifeSnapProps
    /\ hasOnSnap \in BOOLEAN
    /\ initialSnap = 0
    /\ disableDrag = FALSE
    /\ isOpen = TRUE
    /\ mounted = TRUE
    /\ snapPoints = Normalize(rawSnapPoints, windowHeight)
    /\ diagnostic = Diagnostic(snapPoints, windowHeight)
    /\ endSnapPoints = snapPoints
    /\ sheetRef = TRUE
    /\ y \in LifeHeights \cup {0}
    /\ animating = FALSE
    /\ animTarget = 0
    /\ indicatorRotation = 0
    /\ dragging = FALSE
    /\ ev = Event("init")

SettleNext == DragStart \/ DragEnd \/ SnapTo \/ AnimStep

SpecSettle == SettleInit /\ [][SettleNext]_vars /\ WF_vars(AnimStep)

\* ------------------------------------------------------------- the claims
\* A release that was not a flick.
SlowRelease == ev.op = "dragEnd" /\ ev.v <= FlickVelocity

\* The i-th candidate of a release: the measured content height less the
\* i-th snap point handleDragEnd sees.
EndCandidate(i) == ev.ch - endSnapPoints.points[i]

EndIndices == 1..Len(endSnapPoints.points)

\* The distance of the i-th candidate to the live offset (a release leaves
\* the offset as it found it).
EndDistance(i) == Abs(EndCandidate(i) - y)

\* C1: on a release with velocity.y <= 500 and snap points configured, the
\* requested animation target is the candidate contentHeight - p closest to
\* the live offset, the first such candidate in sequence order on a tie.
C1_NearestCandidate ==
    (SlowRelease /\ endSnapPoints.defined) =>
        /\ ev.anim /\ animating
        /\ \E i \in EndIndices :
               /\ animTarget = EndCandidate(i)
               /\ \A j \in EndIndices : EndDistance(i) <= EndDistance(j)
               /\ \A j \in 1..(i - 1) : EndDistance(j) > EndDistance(i)

\* C1's case: two different candidates are equally close to the offset and
\* closer than any other, and the release picked the earlier one.
C1_Witness ==
    /\ SlowRelease /\ endSnapPoints.defined
    /\ \E i, j \in EndIndices :
           /\ i < j
           /\ EndCandidate(i) # EndCandidate(j)
           /\ EndDistance(i) = EndDistance(j)
           /\ \A k \in EndIndices : EndDistance(i) <= EndDistance(k)
           /\ animTarget = EndCandidate(i)

\* C2: a release with velocity.y > 500 calls onClose once, whatever the
\* offset and the snap points, requests no transition and calls no onSnap; a
\* release at exactly 500 goes on to request a transition instead.
C2_FlickCloses ==
    ev.op = "dragEnd" =>
        /\ ev.v > FlickVelocity =>
               ev.closes = 1 /\ ~ev.anim /\ ~animating /\ ev.snaps = <<>>
        /\ ev.v = FlickVelocity => ev.anim /\ animating

\* C2's case: a flick of a fully open sheet with snap points and an onSnap.
C2_Witness ==
    /\ ev.op = "dragEnd" /\ ev.v > FlickVelocity
    /\ endSnapPoints.defined /\ hasOnSnap /\ y = 0
    /\ ev.closes = 1

\* C3: a drag update sets the live offset to max(previous + delta.y, 0): it
\* is never negative after the update, and nothing limits it from above.
C3_DragClamp ==
    ev.op = "drag" =>
        /\ y = (IF ev.y0 + ev.dy > 0 THEN ev.y0 + ev.dy ELSE 0)
        /\ y >= 0

\* C3's case: a drag update that would have taken the offset below 0.
C3_Witness == ev.op = "drag" /\ ev.y0 + ev.dy < 0 /\ y = 0

\* C4: when the first snap point equals the content height, the index a
\* release reports through onSnap is an index of the candidate it chose, for
\* every snap-point sequence (non-integer points included).
C4_RoundTrip ==
    (SlowRelease /\ endSnapPoints.defined /\ hasOnSnap
        /\ endSnapPoints.points[1] = ev.ch) =>
        \E i \in EndIndices :
            animTarget = EndCandidate(i) /\ ev.snaps = <<i - 1>>

\* The snapTo argument of the latest step is an index of snapPoints.
ValidSnapIndex ==
    /\ snapPoints.defined
    /\ ev.n % Unit = 0
    /\ 0 <= ev.n \div Unit /\ ev.n \div Unit < Len(snapPoints.points)

C6_SnapToNoOp ==
    [][(ev'.op = "snapTo"
            /\ ~(/\ snapPoints.defined
                 /\ ev'.n % Unit = 0
                 /\ 0 <= ev'.n \div Unit
                 /\ ev'.n \div Unit < Len(snapPoints.points))) =>
          /\ y' = y /\ animating' = animating /\ animTarget' = animTarget
          /\ ev'.snaps = <<>> /\ ev'.closes = 0
          /\ ~ev'.anim /\ ~ev'.threw]_vars

\* C6's case: snapTo(length) while a transition is in flight.
C6_Witness ==
    /\ ev.op = "snapTo" /\ snapPoints.defined
    /\ ev.n = Px(Len(snapPoints.points))
    /\ animating /\ y # animTarget /\ ~ev.anim

\* C7: once mounted, with snap points and onSnap configured, a change of
\* isOpen makes the effect call onSnap exactly once: with initialSnap on
\* opening, with the last index on closing.
C7_LifecycleSnap ==
    [][(mounted /\ isOpen' # isOpen /\ snapPoints'.defined /\ hasOnSnap) =>
          ev'.snaps = <<IF isOpen' THEN initialSnap
                        ELSE Len(snapPoints'.points) - 1>>]_vars

\* C7's case: the sheet has just been closed, with initialSnap = 0 and two
\* snap points.
C7_Witness ==
    /\ ev.op = "setIsOpen" /\ ~isOpen /\ mounted
    /\ snapPoints.defined /\ hasOnSnap /\ initialSnap = 0
    /\ ev.snaps = <<1>>

\* C8: normalization keeps length and order; element i is v * H for
\* 0 < v <= 1, H + v for v < 0, and v otherwise, for every H >= 0.
C8_Normalized ==
    /\ snapPoints.defined = rawSnapPoints.defined
    /\ Len(snapPoints.points) = Len(rawSnapPoints.points)
    /\ \A i \in 1..Len(rawSnapPoints.points) :
           LET v == rawSnapPoints.points[i]
           IN  snapPoints.points[i] =
                   (IF 0 < v /\ v <= Unit THEN v * windowHeight
                    ELSE IF v < 0 THEN windowHeight * Unit + v
                    ELSE v)

\* C8's case: after a resize, a sequence with a negative point and a fraction
\* below 1 whose normalized value is not a whole number of pixels, the
\* sequence not in descending order.
C8_Witness ==
    /\ ev.op = "resize" /\ snapPoints.defined
    /\ \E i, j \in 1..Len(rawSnapPoints.points) :
           /\ i < j
           /\ rawSnapPoints.points[i] < 0
           /\ 0 < rawSnapPoints.points[j] /\ rawSnapPoints.points[j] < Unit
           /\ snapPoints.points[j] % Unit # 0
           /\ snapPoints.points[i] < snapPoints.points[j]

\* C9: on a release with velocity.y <= 500 and no snap points, the target is
\* contentHeight when offset / contentHeight > 0.6 and 0 otherwise; exactly
\* 60% gives 0.
C9_NoSnapThreshold ==
    (SlowRelease /\ ~endSnapPoints.defined) =>
        /\ ev.anim /\ animating
        /\ animTarget = (IF CloseRatioDen * y > CloseRatioNum * ev.ch
                         THEN ev.ch ELSE 0)

\* C9's case: a release at exactly 60% of a positive content height.
C9_Witness ==
    /\ SlowRelease /\ ~endSnapPoints.defined
    /\ ev.ch > 0 /\ CloseRatioDen * y = CloseRatioNum * ev.ch
    /\ animTarget = 0

\* C10: a release whose snapValue matches no snap point does not throw and
\* calls no onSnap.
C10_NoMatchSilent ==
    (SlowRelease /\ endSnapPoints.defined /\ hasOnSnap
        /\ \A i \in EndIndices :
               endSnapPoints.points[i] #
                   Abs(MathRound(endSnapPoints.points[1] - animTarget))) =>
        ev.snaps = <<>> /\ ~ev.threw

\* C11: while the panel element reference is empty, a release with
\* velocity.y <= 500 and a snapTo with an index of the snap points do
\* nothing: no exception, no transition request, no onSnap, no onClose.
C11_UnmeasuredNoOp ==
    (/\ ~sheetRef
     /\ \/ SlowRelease
        \/ ev.op = "snapTo" /\ ValidSnapIndex) =>
        ~ev.threw /\ ~ev.anim /\ ev.snaps = <<>> /\ ev.closes = 0

\* C12: after every render the non-descending diagnostic has been printed
\* exactly when snap points are configured, the normalized ones are not
\* strictly decreasing and the viewport height is above 0 (never at height
\* 0); the snap points stay the normalized ones, in their order.
C12_Diagnostic ==
    /\ diagnostic =
           (/\ snapPoints.defined
            /\ windowHeight > 0
            /\ \E i \in 1..(Len(snapPoints.points) - 1) :
                   snapPoints.points[i + 1] >= snapPoints.points[i])
    /\ windowHeight = 0 => ~diagnostic
    /\ snapPoints = Normalize(rawSnapPoints, windowHeight)

\* C12's case: a resize to a positive height whose render printed the
\* diagnostic for two equal normalized points and kept them as they are.
C12_Witness ==
    /\ ev.op = "resize" /\ diagnostic /\ windowHeight > 0
    /\ Len(snapPoints.points) = 2
    /\ snapPoints.points[1] = snapPoints.points[2]
    /\ rawSnapPoints.points[1] # rawSnapPoints.points[2]

\* C13: with disableDrag true no gesture reaches handleDrag or
\* handleDragEnd: no step starts, tracks or releases a drag, the indicator
\* hint does not change, the offset changes only in a frame of a transition,
\* a transition is requested only by snapTo, and onSnap and onClose are
\* called only by snapTo and the open/close effect.
C13_DragDisabled ==
    [][disableDrag =>
          /\ ev'.op \notin {"dragStart", "drag", "dragEnd"}
          /\ ~dragging'
          /\ indicatorRotation' = indicatorRotation
          /\ y' # y => ev'.op = "frame" /\ animating
          /\ ev'.anim => ev'.op = "snapTo"
          /\ (ev'.snaps # <<>> \/ ev'.closes > 0) =>
                 ev'.op \in {"snapTo", "setIsOpen"}]_vars

\* C13's case: with drag disabled and the panel attached, the transition a
\* snapTo requested has moved the offset and come to rest.
C13_Witness ==
    /\ disableDrag /\ sheetRef /\ isOpen
    /\ ev.op = "frame" /\ ~animating
    /\ y # Px(windowHeight)

\* C14: the live offset has one writer in every reachable state, the drag
\* tracker while a gesture is active and the transition otherwise: a
\* transition is never in flight while a gesture is active.
C14_SingleWriter == ~(dragging /\ animating)

\* The targets a request can name within the bounds.
Targets == (-Px(MaxPx))..Px(MaxPx)

\* C15: with no drag update, a transition request for target t is followed
\* by the offset at rest at t, unless a request for another target comes
\* after it: the latest request wins, none is queued, and asking again for
\* the same target changes nothing about where the offset rests.
C15_RestsAtLatest ==
    \A t \in Targets :
        (ev.anim /\ ev.req = t) ~>
            \/ ~animating /\ y = t
            \/ ev.anim /\ ev.req # t

\* C15's case: a request made while another transition was in flight and
\* the offset was not at the requested target.
C15_Witness ==
    /\ ev.anim /\ ev.busy /\ ev.req # y /\ ev.req \in Targets
    /\ animating /\ animTarget = ev.req

\* C16: a release with velocity.y <= 500 calls onClose once when the target
\* it chose is at or past the measured content height and not at all when
\* the target is short of it, with snap points and without.
C16_ClosesAtOrPast ==
    SlowRelease =>
        /\ ev.anim
        /\ animTarget >= ev.ch => ev.closes = 1
        /\ animTarget < ev.ch => ev.closes = 0

\* C16's case: without snap points, a release past 60% of a positive content
\* height targets exactly the content height and calls onClose.
C16_Witness ==
    /\ SlowRelease /\ ~endSnapPoints.defined
    /\ ev.ch > 0 /\ animTarget = ev.ch
    /\ ev.closes = 1

\* C17: the indicator hint is always -10, 0 or 10; a drag update sets it to
\* 10 or -10 or leaves it; after every release that has completed (a flick,
\* a snap, a close, an index that was not found) it is 0; and no other step
\* changes it.
C17_IndicatorReset ==
    [][/\ indicatorRotation' \in {-IndicatorTilt, 0, IndicatorTilt}
       /\ (ev'.op = "dragEnd" /\ ~ev'.threw) => indicatorRotation' = 0
       /\ ev'.op = "drag" =>
              indicatorRotation' \in {IndicatorTilt, -IndicatorTilt, indicatorRotation}
       /\ ev'.op \notin {"drag", "dragEnd"} =>
              indicatorRotation' = indicatorRotation]_vars

\* C17's case: a release whose snap index was not found has reset the hint.
C17_Witness ==
    /\ ev.op = "dragEnd" /\ ev.snaps = <<NotFound>>
    /\ indicatorRotation = 0

\* C18: a release with velocity.y <= 500 resolves its target against the
\* snap points normalized in the most recent render, the ones snapTo uses,
\* also after a render that changed the viewport height and left onClose and
\* onSnap as they were.
C18_FreshSnapPoints ==
    (SlowRelease /\ snapPoints.defined /\ ev.anim) =>
        \E i \in 1..Len(snapPoints.points) :
            /\ animTarget = ev.ch - snapPoints.points[i]
            /\ \A j \in 1..Len(snapPoints.points) :
                   Abs(ev.ch - snapPoints.points[i] - y) <=
                       Abs(ev.ch - snapPoints.points[j] - y)

\* C19: when a release with velocity.y <= 500 or a snapTo resolves to the
\* closed target and calls onClose, and the host answers by setting isOpen
\* to false, the handler and the open/close effect together call onSnap with
\* the last index exactly once.
C19_OneSnapPerClose ==
    [][(/\ ev.op \in {"dragEnd", "snapTo"} /\ ev.anim /\ ev.closes = 1
        /\ snapPoints.defined /\ hasOnSnap
        /\ ev'.op = "setIsOpen" /\ isOpen /\ ~isOpen') =>
          LET last == <<Len(snapPoints.points) - 1>>
          IN  (IF ev.snaps = last THEN 1 ELSE 0)
                  + (IF ev'.snaps = last THEN 1 ELSE 0) = 1]_vars

\* C20: mounted turns true once, in the mount step, and stays true; no
\* onSnap is called while mounted is false, at the first render included;
\* the mount step of a sheet first rendered open calls no onSnap, and outside
\* a release and a snapTo onSnap is called only in a step that changes
\* isOpen.
C20_MountedOnce ==
    /\ ~mounted => ev.snaps = <<>>
    /\ [][/\ mounted => mounted'
          /\ mounted' # mounted => ev'.op = "mount"
          /\ ev'.op = "mount" => ~mounted /\ mounted' /\ ev'.snaps = <<>>
          /\ ~mounted' => ev'.snaps = <<>>
          /\ (ev'.snaps # <<>> /\ ev'.op \notin {"dragEnd", "snapTo"}) =>
                 mounted /\ isOpen' # isOpen]_vars

\* C20's case: a sheet first rendered open, with snap points and an onSnap,
\* has just been mounted and nothing was reported.
C20_Witness ==
    /\ ev.op = "mount" /\ mounted /\ isOpen
    /\ snapPoints.defined /\ hasOnSnap
    /\ ev.snaps = <<>>

====
